---- MODULE Spec2Model ----
(***************************************************************************)
(* GridWeaver, @gridweaver/react: the AgTable component, its column        *)
(* hydrator (fromSerializedToColumnDef), its row-request translator        *)
(* (parseSort) and the server-side data source it builds (getRows).        *)
(*                                                                         *)
(* JavaScript values are modelled as follows.  An object is a function     *)
(* from its own keys to values, so an absent property is a key outside     *)
(* DOMAIN.  An array is a sequence.  A string that the code takes apart    *)
(* (a sort column id) is a sequence of one-character strings; every other  *)
(* string is a TLA+ string.                                                *)
(***************************************************************************)
EXTENDS Integers, Sequences, FiniteSets, TLC

VARIABLES
    request,      \* translator: the native request handed to parseSort
    query,        \* translator: the value parseSort returned for it
    columns,      \* hydrator: the serialized column objects (the caller's array)
    original,     \* hydrator: the serialized columns as first handed over (history)
    hydrations,   \* hydrator: one record per fromSerializedToColumnDef call
    cell,         \* hydrator: the last valueFormatter call and its outcome
    source,       \* data source: serialized.http, which getRows closes over
    pulls,        \* data source: one record per getRows call
    url,          \* component: this.props.url
    state,        \* component: this.state
    fetches,      \* component: one record per fetchTableDefinition call, oldest first
    dateCall      \* expression engine: the last call of the date filter and its result

translatorVars == <<request, query>>
hydratorVars == <<columns, original, hydrations, cell>>
rowsVars == <<source, pulls>>
componentVars == <<url, state, fetches>>
dateVars == <<dateCall>>

vars == <<request, query, columns, original, hydrations, cell, source, pulls, url, state,
         fetches, dateCall>>

Has(obj, key) == key \in DOMAIN obj

EmptyObject == <<>>

(***************************************************************************)
(* Bounds of the model.                                                    *)
(***************************************************************************)
MaxRow == 2
MaxColIdLen == 5
MaxCols == 2
MaxHydrations == 2
MaxFormatterLen == 2
MaxPulls == 2
MaxFetches == 3

(***************************************************************************)
(* Row-request translator: parseSort.                                      *)
(***************************************************************************)
Dot == "."

\* 'createdAt', the colId of the fallback sort
CreatedAt == <<"c", "r", "e", "a", "t", "e", "d", "A", "t">>

\* a fallback sort with the direction reversed
DefaultSortAscending == [colId |-> CreatedAt, sort |-> "asc"]

DefaultSort == [colId |-> CreatedAt, sort |-> "desc"]

\* String.prototype.includes for a one-character needle
Includes(str, ch) == \E i \in 1..Len(str) : str[i] = ch

\* index of the first occurrence of ch in str, 0 when there is none
IndexOf(str, ch) ==
    IF Includes(str, ch)
    THEN CHOOSE i \in 1..Len(str) : str[i] = ch /\ \A j \in 1..(i - 1) : str[j] # ch
    ELSE 0

\* String.prototype.split(ch): every segment between occurrences of ch
RECURSIVE Split(_, _)
Split(str, ch) ==
    IF ~Includes(str, ch)
    THEN <<str>>
    ELSE LET i == IndexOf(str, ch)
         IN <<SubSeq(str, 1, i - 1)>> \o Split(SubSeq(str, i + 1, Len(str)), ch)

\* toUpperCase of one character
ToUpperCase(ch) ==
    CASE ch = "a" -> "A"
      [] ch = "b" -> "B"
      [] OTHER -> ch

\* modelName.charAt(0).toUpperCase() + modelName.slice(1)
CapitalizeFirst(str) ==
    IF Len(str) = 0 THEN str ELSE <<ToUpperCase(str[1])>> \o Tail(str)

\* a filter mapping with the two substring operators exchanged
FilterEntrySwapped(key, filterVal) ==
    LET op1 == IF filterVal.type = "contains" /\ key # "id" THEN "$notILike" ELSE "$eq"
        operator == IF filterVal.type = "notContains" /\ key # "id"
                    THEN "$iLike" ELSE op1
    IN IF operator = "$eq"
       THEN filterVal.filter
       ELSE (operator :> ("%" \o filterVal.filter \o "%"))

\* the value emitted for one filterModel entry
FilterEntry(key, filterVal) ==
    LET op1 == IF filterVal.type = "contains" /\ key # "id" THEN "$iLike" ELSE "$eq"
        operator == IF filterVal.type = "notContains" /\ key # "id"
                    THEN "$notILike" ELSE op1
    IN IF operator = "$eq"
       THEN filterVal.filter
       ELSE (operator :> ("%" \o filterVal.filter \o "%"))

\* the orderBy value for the chosen sort entry
OrderBy(sort) ==
    IF Includes(sort.colId, Dot)
    THEN LET parts == Split(sort.colId, Dot)
             modelName == parts[1]
             columnName == parts[2]
             model == CapitalizeFirst(modelName)
         IN << <<[model |-> model, as |-> modelName], columnName, sort.sort>> >>
    ELSE << <<sort.colId, sort.sort>> >>

parseSort(req) ==
    LET startRow == IF Has(req, "startRow") THEN req.startRow ELSE 0
        endRow == IF Has(req, "endRow") THEN req.endRow ELSE 0
        filterModel == IF Has(req, "filterModel") THEN req.filterModel ELSE EmptyObject
        limit == endRow - startRow
        sort == IF Has(req, "sortModel") /\ Len(req.sortModel) > 0
                THEN req.sortModel[1] ELSE DefaultSort
        filter == [key \in DOMAIN filterModel |-> FilterEntry(key, filterModel[key])]
    IN [filter |-> filter, limit |-> limit, offset |-> startRow,
        orderBy |-> OrderBy(sort)]

(***************************************************************************)
(* Expression engine (angular-expressions, imported by expressions.ts).    *)
(* An expression source is one of the strings of Expressions; compiling a  *)
(* malformed source throws, and evaluating a call of a host function       *)
(* throws when that function throws.                                       *)
(***************************************************************************)
Undefined == "undefined"

\* null and undefined where the field otherwise holds an object
NullRef == [null |-> TRUE]
UndefinedRef == [undefined |-> TRUE]

Expressions == {"value", "value | toUpper", "node.getTotal()", "value |"}

CellValues == {"ann", "Bo"}

\* expressions.filters['toUpper'] on the cell values of the model
toUpper(input) ==
    CASE input = "ann" -> "ANN"
      [] input = "Bo" -> "BO"
      [] OTHER -> input

\* expressions.compile(exp): TRUE when it returns a function, FALSE when it throws
Compiles(exp) == exp # "value |"

\* exec(scope) for the function compiled from exp
Exec(exp, scope) ==
    CASE exp = "value" -> [threw |-> FALSE, value |-> scope.value]
      [] exp = "value | toUpper" -> [threw |-> FALSE, value |-> toUpper(scope.value)]
      [] exp = "node.getTotal()" ->
            IF scope.node.broken
            THEN [threw |-> TRUE, value |-> Undefined]
            ELSE [threw |-> FALSE, value |-> scope.node.total]
      [] OTHER -> [threw |-> TRUE, value |-> Undefined]

(***************************************************************************)
(* Definition hydrator: fromSerializedToColumnDef.                         *)
(***************************************************************************)
\* the scope object the hydrated valueFormatter builds from its params
Scope(params) ==
    [api |-> params.api, colDef |-> params.colDef, node |-> params.node,
     value |-> params.value]

\* the loop `for (const exp of vf)` from entry i on; run is what has happened so
\* far: the outcome, the sources compiled and the (source, scope) pairs evaluated
RECURSIVE FormatterLoop(_, _, _, _)
FormatterLoop(vf, i, scope, run) ==
    IF i > Len(vf)
    THEN [run EXCEPT !.status = "returned"]
    ELSE LET compiled == Append(run.compiled, vf[i])
         IN IF ~Compiles(vf[i])
            THEN [run EXCEPT !.status = "threw", !.compiled = compiled]
            ELSE LET r == Exec(vf[i], scope)
                     evaluated == Append(run.evaluated, <<vf[i], scope>>)
                 IN IF r.threw
                    THEN [run EXCEPT !.status = "threw", !.compiled = compiled,
                                     !.evaluated = evaluated]
                    ELSE FormatterLoop(vf, i + 1, scope,
                            [run EXCEPT !.result = r.value, !.compiled = compiled,
                                        !.evaluated = evaluated])

\* the closure `valueFormatter` that hydration binds over vf, called with params
valueFormatter(vf, params) ==
    FormatterLoop(vf, 1, Scope(params),
        [status |-> "running", result |-> Undefined, compiled |-> <<>>,
         evaluated |-> <<>>])

Merge(a, b) == [k \in DOMAIN a \cup DOMAIN b |-> IF k \in DOMAIN b THEN b[k] ELSE a[k]]

\* whether c.cellRendererParams is truthy: present and not null
HasRendererParams(c) == Has(c, "cellRendererParams") /\ c.cellRendererParams # NullRef

\* an injection that replaces the renderer parameters by the callback alone
InjectActionDiscarding(c, cellRendererAction) ==
    IF Has(c, "cellRenderer") /\ cellRendererAction # Undefined /\ HasRendererParams(c)
    THEN [c EXCEPT !["cellRendererParams"] = ("onAction" :> cellRendererAction)]
    ELSE c

\* the first statement of the map callback: the column object c after it
InjectAction(c, cellRendererAction) ==
    IF Has(c, "cellRenderer") /\ cellRendererAction # Undefined /\ HasRendererParams(c)
    THEN [c EXCEPT !["cellRendererParams"] =
                Merge(c.cellRendererParams, ("onAction" :> cellRendererAction))]
    ELSE c

\* whether the map callback builds a new object with a valueFormatter closure
HasFormatter(c) == Has(c, "valueFormatter") /\ Len(c.valueFormatter) > 0

\* what the map callback returns for column i: the input object itself (an
\* alias) or a new object spread from it
LiveColumn(c, i) ==
    IF ~HasFormatter(c)
    THEN [alias |-> TRUE, index |-> i, object |-> EmptyObject]
    ELSE [alias |-> FALSE, index |-> i,
          object |-> Merge(c, ("valueFormatter" :> [closure |-> c.valueFormatter]))]

\* fromSerializedToColumnDef(serialized, cellRendererAction): the input array
\* as the call leaves it, and the array it returns
fromSerializedToColumnDef(serialized, cellRendererAction) ==
    LET after == [i \in 1..Len(serialized) |->
                     InjectAction(serialized[i], cellRendererAction)]
    IN [input |-> after,
        live |-> [i \in 1..Len(serialized) |-> LiveColumn(after[i], i)]]

\* the object a live column denotes, given the current input objects
Deref(lc, cols) == IF lc.alias THEN cols[lc.index] ELSE lc.object

(***************************************************************************)
(* The native requests the grid may issue (IServerSideGetRowsRequest).     *)
(***************************************************************************)
\* every object with keys among `keys` and values drawn from `values`
Objects(keys, values) == UNION {[ks -> values] : ks \in SUBSET keys}

ColIdChars == {"a", Dot}

\* column ids: field names and dotted field paths, no segment of a path empty
ColIds ==
    {id \in UNION {[1..n -> ColIdChars] : n \in 1..MaxColIdLen} :
        /\ id[1] # Dot
        /\ id[Len(id)] # Dot
        /\ \A i \in 1..(Len(id) - 1) : ~(id[i] = Dot /\ id[i + 1] = Dot)}

SortItems == [colId : ColIds, sort : {"asc", "desc"}]

SortModels == {<<>>} \cup {<<s>> : s \in SortItems}

FilterKeys == {"id", "name"}

FilterTypes == {"contains", "notContains", "equals"}

FilterValues == [type : FilterTypes, filter : {"ann"}]

FilterModels == Objects(FilterKeys, FilterValues)

Rows == 0..MaxRow

RowFields == Objects({"startRow", "endRow"}, Rows)

Requests ==
    {Merge(Merge(r, s), f) :
        r \in RowFields,
        s \in Objects({"sortModel"}, SortModels),
        f \in Objects({"filterModel"}, FilterModels)}

NoQuery == [pending |-> TRUE]

(***************************************************************************)
(* The serialized columns a caller may hand to the hydrator, and the       *)
(* render parameters the grid may hand to a hydrated valueFormatter.       *)
(***************************************************************************)
Callbacks == {"onOptionClicked#1", "onOptionClicked#2"}

\* the componentRegistry of the hosting application: renderer name -> component
Registry == ("ActionMenu" :> "ActionMenuComponent")

\* cellRenderer / cellRendererParams: neither, a renderer alone (registered or
\* not), parameters alone, a renderer with parameters, a renderer with null
\* parameters
RendererParts ==
    {EmptyObject,
     ("cellRenderer" :> "ActionMenu"),
     ("cellRenderer" :> "StatusBadge"),
     ("cellRendererParams" :> ("label" :> "More")),
     ("cellRenderer" :> "ActionMenu") @@ ("cellRendererParams" :> ("label" :> "More")),
     ("cellRenderer" :> "StatusBadge") @@ ("cellRendererParams" :> ("label" :> "More")),
     ("cellRenderer" :> "ActionMenu") @@ ("cellRendererParams" :> NullRef)}

FormatterLists(exprs) == UNION {[1..n -> exprs] : n \in 0..MaxFormatterLen}

FormatterParts(exprs) ==
    {EmptyObject} \cup {("valueFormatter" :> vf) : vf \in FormatterLists(exprs)}

SerializedColumns(exprs) ==
    {Merge(Merge(("field" :> "name"), r), f) :
        r \in RendererParts, f \in FormatterParts(exprs)}

\* columns for the hydrator alone: no formatter, an empty list, or one source
PlainColumns ==
    {Merge(Merge(("field" :> "name"), r), f) :
        r \in RendererParts,
        f \in {EmptyObject, ("valueFormatter" :> <<>>), ("valueFormatter" :> <<"value">>)}}

\* column arrays for the hydrator alone: several columns
ColumnArrays == UNION {[1..n -> PlainColumns] : n \in 1..MaxCols}

\* column arrays for rendering: one column with a non-empty formatter list
FormattedColumnArrays ==
    {<<c>> : c \in {x \in SerializedColumns(Expressions) : HasFormatter(x)}}

Nodes == [broken : BOOLEAN, total : {"42"}]

NoCell == [pending |-> TRUE]

HydratorIdle ==
    /\ columns = <<>>
    /\ original = <<>>
    /\ hydrations = <<>>
    /\ cell = NoCell

TranslatorIdle ==
    /\ request = EmptyObject
    /\ query = NoQuery

NoSource == [unbound |-> TRUE]

RowsIdle ==
    /\ source = NoSource
    /\ pulls = <<>>

ComponentIdle ==
    /\ url = ""
    /\ state = EmptyObject
    /\ fetches = <<>>

NoDateCall == [pending |-> TRUE]

DateIdle == dateCall = NoDateCall

(***************************************************************************)
(* Translator: one request, translated once.                               *)
(***************************************************************************)
InitTranslate ==
    /\ request \in Requests
    /\ query = NoQuery
    /\ HydratorIdle
    /\ RowsIdle
    /\ ComponentIdle
    /\ DateIdle

\* the data source hands the grid's request to parseSort
Translate ==
    /\ query = NoQuery
    /\ query' = parseSort(request)
    /\ UNCHANGED request
    /\ UNCHANGED <<hydratorVars, rowsVars, componentVars, dateVars>>

NextTranslate == Translate

SpecTranslate == InitTranslate /\ [][NextTranslate]_vars

(***************************************************************************)
(* Hydrator: any number of calls on the same serialized column array.      *)
(***************************************************************************)
\* one call of fromSerializedToColumnDef on the caller's array; `input` keeps the
\* array as it was handed over and `produced` the returned columns as they were
\* when the call returned (history)
Hydrate(cellRendererAction) ==
    /\ Len(hydrations) < MaxHydrations
    /\ LET h == fromSerializedToColumnDef(columns, cellRendererAction)
       IN /\ columns' = h.input
          /\ hydrations' = Append(hydrations,
                [action |-> cellRendererAction, input |-> columns, live |-> h.live,
                 produced |-> [i \in 1..Len(h.live) |-> Deref(h.live[i], h.input)]])
    /\ UNCHANGED <<original, cell>>
    /\ UNCHANGED <<translatorVars, rowsVars, componentVars, dateVars>>

\* the grid calls the valueFormatter of live column j of hydration h for a cell
RenderCell(h, j, value, node) ==
    /\ h \in 1..Len(hydrations)
    /\ j \in 1..Len(hydrations[h].live)
    /\ LET col == Deref(hydrations[h].live[j], columns)
           params == [api |-> "gridApi", colDef |-> col.field, node |-> node,
                      value |-> value]
       IN /\ Has(col, "valueFormatter")
          /\ Has(col.valueFormatter, "closure")
          /\ cell' = [hydration |-> h, column |-> j, vf |-> col.valueFormatter.closure,
                      params |-> params,
                      run |-> valueFormatter(col.valueFormatter.closure, params)]
    /\ UNCHANGED <<columns, original, hydrations>>
    /\ UNCHANGED <<translatorVars, rowsVars, componentVars, dateVars>>

InitHydrate ==
    /\ columns \in ColumnArrays
    /\ original = columns
    /\ hydrations = <<>>
    /\ cell = NoCell
    /\ TranslatorIdle
    /\ RowsIdle
    /\ ComponentIdle
    /\ DateIdle

NextHydrate == \E cb \in Callbacks \cup {Undefined} : Hydrate(cb)

SpecHydrate == InitHydrate /\ [][NextHydrate]_vars

InitFormat ==
    /\ columns \in FormattedColumnArrays
    /\ original = columns
    /\ hydrations = <<>>
    /\ cell = NoCell
    /\ TranslatorIdle
    /\ RowsIdle
    /\ ComponentIdle
    /\ DateIdle

NextFormat ==
    \/ \E cb \in Callbacks \cup {Undefined} : Hydrate(cb)
    \/ \E h \in 1..MaxHydrations, j \in 1..MaxCols, value \in CellValues, node \in Nodes :
          RenderCell(h, j, value, node)

SpecFormat == InitFormat /\ [][NextFormat]_vars

\* the values of the url prop: two definition urls
Urls == {"/defs/users", "/defs/orders"}

\* the serialized table definition the backend holds for a definition url
\* (the users table carries a static parameter, the orders table has no params)
Definition(u) ==
    [http |-> IF u = "/defs/users"
              THEN ("url" :> u \o "/rows") @@ ("params" :> ("tenant" :> "t1"))
              ELSE ("url" :> u \o "/rows"),
     columnDefs |-> << ("field" :> "name") @@ ("cellRenderer" :> "ActionMenu")
                        @@ ("cellRendererParams" :> ("label" :> u)),
                      ("field" :> "createdAt") @@ ("valueFormatter" :> <<"value">>) >>,
     defaultSort |-> [colId |-> "createdAt", sort |-> "desc"]]

(***************************************************************************)
(* Data source: dataSource.getRows, one promise chain per call.            *)
(*   fetch(url).then(res => res.json()).then(result => {...}).catch(...)   *)
(* pc is the callback of the chain that runs next.                         *)
(***************************************************************************)
\* what res.json() finds in the body: a page {data, count}, some other JSON
\* value (an error document), or text that is not JSON
Bodies == {"page", "otherJson", "notJson"}

\* the requests the grid hands to getRows here: a bare page, a page sorted by a
\* related field, and a page filtered on name and on the key of a static param
PageRequests ==
    {[startRow |-> 0, endRow |-> 2],
     [startRow |-> 2, endRow |-> 4,
      sortModel |-> <<[colId |-> <<"a", ".", "a">>, sort |-> "asc"]>>],
     [startRow |-> 0, endRow |-> 2,
      filterModel |-> ("name" :> [type |-> "contains", filter |-> "ann"])
                      @@ ("tenant" :> [type |-> "equals", filter |-> "ann"])]}

\* JSON.stringify(value): the JSON text, written as the document it denotes.
\* Every value encoded here is built of strings, arrays and objects, which JSON
\* represents without loss.
JSONStringify(value) == [json |-> value]

\* serialized.http.params || {}
StaticParams(http) == IF Has(http, "params") THEN http.params ELSE EmptyObject

\* query parameters in which the grid's filter overrides the static parameters
QueryParamsGridFilterWins(q, http) ==
    [filter |-> JSONStringify(Merge(StaticParams(http), q.filter)),
     limit |-> ToString(q.limit),
     offset |-> ToString(q.offset),
     orderBy |-> JSONStringify(q.orderBy)]

\* the query parameters getRows sets on its URLSearchParams
QueryParams(q, http) ==
    [filter |-> JSONStringify(Merge(q.filter, StaticParams(http))),
     limit |-> ToString(q.limit),
     offset |-> ToString(q.offset),
     orderBy |-> JSONStringify(q.orderBy)]

\* getRows(params) up to the fetch call, for the data source bound to http
GetRows(req, http) ==
    /\ Len(pulls) < MaxPulls
    /\ pulls' = Append(pulls,
          [pc |-> "fetch", transport |-> "pending", ok |-> TRUE, body |-> "page",
           successCalls |-> 0, failCalls |-> 0, rowData |-> Undefined,
           thrown |-> "none", request |-> req,
           url |-> http.url, queryParams |-> QueryParams(parseSort(req), http)])
    /\ UNCHANGED <<source, translatorVars, hydratorVars, componentVars, dateVars>>

\* fetch rejects: the chain skips both then callbacks
FetchPageRejects(p) ==
    /\ p \in 1..Len(pulls)
    /\ pulls[p].pc = "fetch"
    /\ pulls' = [pulls EXCEPT ![p].pc = "catch", ![p].transport = "rejected"]
    /\ UNCHANGED <<source, translatorVars, hydratorVars, componentVars, dateVars>>

\* fetch resolves with a response; the first then callback calls res.json()
FetchPageResolves(p, ok, body) ==
    /\ p \in 1..Len(pulls)
    /\ pulls[p].pc = "fetch"
    /\ pulls' = [pulls EXCEPT ![p].pc = "json", ![p].transport = "responded",
                              ![p].ok = ok, ![p].body = body]
    /\ UNCHANGED <<source, translatorVars, hydratorVars, componentVars, dateVars>>

\* res.json() rejects: the body is not JSON
JsonPageRejects(p) ==
    /\ p \in 1..Len(pulls)
    /\ pulls[p].pc = "json"
    /\ pulls[p].body = "notJson"
    /\ pulls' = [pulls EXCEPT ![p].pc = "catch"]
    /\ UNCHANGED <<source, translatorVars, hydratorVars, componentVars, dateVars>>

\* res.json() resolves: the second then callback calls params.success and then
\* params.api.sizeColumnsToFit; thrown names the call that throws, if any
OnResult(p, thrown) ==
    /\ p \in 1..Len(pulls)
    /\ pulls[p].pc = "json"
    /\ pulls[p].body # "notJson"
    /\ pulls' = [pulls EXCEPT
          ![p].successCalls = @ + 1,
          ![p].rowData = IF pulls[p].body = "page" THEN "rows" ELSE Undefined,
          ![p].thrown = thrown,
          ![p].pc = IF thrown = "none" THEN "done" ELSE "catch"]
    /\ UNCHANGED <<source, translatorVars, hydratorVars, componentVars, dateVars>>

\* the catch callback
OnRejected(p) ==
    /\ p \in 1..Len(pulls)
    /\ pulls[p].pc = "catch"
    /\ pulls' = [pulls EXCEPT ![p].failCalls = @ + 1, ![p].pc = "done"]
    /\ UNCHANGED <<source, translatorVars, hydratorVars, componentVars, dateVars>>

InitRows ==
    /\ source \in {Definition(u).http : u \in Urls}
    /\ pulls = <<>>
    /\ TranslatorIdle
    /\ HydratorIdle
    /\ ComponentIdle
    /\ DateIdle

NextRows ==
    \/ \E req \in PageRequests : GetRows(req, source)
    \/ \E p \in 1..MaxPulls : FetchPageRejects(p)
    \/ \E p \in 1..MaxPulls, ok \in BOOLEAN, body \in Bodies : FetchPageResolves(p, ok, body)
    \/ \E p \in 1..MaxPulls : JsonPageRejects(p)
    \/ \E p \in 1..MaxPulls, thrown \in {"none", "success", "sizeColumnsToFit"} :
          OnResult(p, thrown)
    \/ \E p \in 1..MaxPulls : OnRejected(p)

SpecRows == InitRows /\ [][NextRows]_vars

(***************************************************************************)
(* AgTable component: constructor, componentDidMount, componentDidUpdate,  *)
(* fetchTableDefinition and render.                                        *)
(***************************************************************************)
Null == "null"

\* the prop onOptionClicked, as given by the parent (fixed here)
OnOptionClicked == "onOptionClicked#1"

\* messages of the errors a failed definition fetch ends in
NetworkErrors == {"Network error", "Load failed"}
StatusTexts == {"Not Found", ""}
NotOkMessage(statusText) == "Failed to fetch table definition: " \o statusText
JsonErrorMessage == "Unexpected token < in JSON at position 0"

\* this.state as the constructor leaves it
InitialState ==
    [columnDefs |-> <<>>, dataSource |-> NullRef, defaultSort |-> UndefinedRef,
     loading |-> TRUE, error |-> Null]

\* this.setState(partial): a shallow merge
SetState(st, partial) == Merge(st, partial)

\* the setState call that opens fetchTableDefinition
LoadingState(st) == SetState(st, [loading |-> TRUE, error |-> Null])

\* a catch block that records the error and leaves loading as it is
ErrorStateStillLoading(st, message) == SetState(st, [error |-> message])

\* the setState call of the catch block
ErrorState(st, message) == SetState(st, [error |-> message, loading |-> FALSE])

\* the setState call that ends the try block, for the parsed definition
LoadedState(st, serialized, cellRendererAction) ==
    LET h == fromSerializedToColumnDef(serialized.columnDefs, cellRendererAction)
    IN SetState(st,
          [columnDefs |-> [i \in 1..Len(h.live) |-> Deref(h.live[i], h.input)],
           dataSource |-> [http |-> serialized.http],
           defaultSort |-> serialized.defaultSort,
           loading |-> FALSE])

\* render(): what the component shows
Render(st) ==
    IF st.loading THEN "Loading..."
    ELSE IF st.error # Null /\ st.error # "" THEN "Error: " \o st.error
    ELSE "AgGridReact"

\* fetchTableDefinition up to its first await: the fetch is in flight; message
\* keeps the error message of the call once its catch block has run (history)
StartFetch(u) ==
    /\ state' = LoadingState(state)
    /\ fetches' = Append(fetches,
          [url |-> u, pc |-> "fetch", outcome |-> "pending", message |-> Null])

\* componentDidMount
ComponentDidMount ==
    /\ fetches = <<>>
    /\ StartFetch(url)
    /\ UNCHANGED url
    /\ UNCHANGED <<translatorVars, hydratorVars, rowsVars, dateVars>>

\* the parent passes another url: componentDidUpdate sees prevProps.url differ
ComponentDidUpdate(u) ==
    /\ fetches # <<>>
    /\ Len(fetches) < MaxFetches
    /\ u # url
    /\ url' = u
    /\ StartFetch(u)
    /\ UNCHANGED <<translatorVars, hydratorVars, rowsVars, dateVars>>

\* `await fetch(url)` rejects: the catch block runs
FetchRejects(f, message) ==
    /\ f \in 1..Len(fetches)
    /\ fetches[f].pc = "fetch"
    /\ state' = ErrorState(state, message)
    /\ fetches' = [fetches EXCEPT ![f].pc = "done", ![f].outcome = "failed",
                                  ![f].message = message]
    /\ UNCHANGED url
    /\ UNCHANGED <<translatorVars, hydratorVars, rowsVars, dateVars>>

\* `await fetch(url)` resolves with !response.ok: the throw lands in the catch block
FetchNotOk(f, statusText) ==
    /\ f \in 1..Len(fetches)
    /\ fetches[f].pc = "fetch"
    /\ state' = ErrorState(state, NotOkMessage(statusText))
    /\ fetches' = [fetches EXCEPT ![f].pc = "done", ![f].outcome = "failed",
                                  ![f].message = NotOkMessage(statusText)]
    /\ UNCHANGED url
    /\ UNCHANGED <<translatorVars, hydratorVars, rowsVars, dateVars>>

\* `await fetch(url)` resolves with response.ok: response.json() is awaited
FetchOk(f) ==
    /\ f \in 1..Len(fetches)
    /\ fetches[f].pc = "fetch"
    /\ fetches' = [fetches EXCEPT ![f].pc = "json"]
    /\ UNCHANGED <<url, state>>
    /\ UNCHANGED <<translatorVars, hydratorVars, rowsVars, dateVars>>

\* `await response.json()` rejects: the catch block runs
JsonRejects(f) ==
    /\ f \in 1..Len(fetches)
    /\ fetches[f].pc = "json"
    /\ state' = ErrorState(state, JsonErrorMessage)
    /\ fetches' = [fetches EXCEPT ![f].pc = "done", ![f].outcome = "failed",
                                  ![f].message = JsonErrorMessage]
    /\ UNCHANGED url
    /\ UNCHANGED <<translatorVars, hydratorVars, rowsVars, dateVars>>

\* `await response.json()` resolves: the rest of the try block runs
JsonResolves(f) ==
    /\ f \in 1..Len(fetches)
    /\ fetches[f].pc = "json"
    /\ state' = LoadedState(state, Definition(fetches[f].url), OnOptionClicked)
    /\ fetches' = [fetches EXCEPT ![f].pc = "done", ![f].outcome = "succeeded"]
    /\ UNCHANGED url
    /\ UNCHANGED <<translatorVars, hydratorVars, rowsVars, dateVars>>

Init ==
    /\ url \in Urls
    /\ state = InitialState
    /\ fetches = <<>>
    /\ TranslatorIdle
    /\ HydratorIdle
    /\ RowsIdle
    /\ DateIdle

Next ==
    \/ ComponentDidMount
    \/ \E u \in Urls : ComponentDidUpdate(u)
    \/ \E f \in 1..MaxFetches, message \in NetworkErrors \cup {"Unknown error"} :
          FetchRejects(f, message)
    \/ \E f \in 1..MaxFetches, statusText \in StatusTexts : FetchNotOk(f, statusText)
    \/ \E f \in 1..MaxFetches : FetchOk(f)
    \/ \E f \in 1..MaxFetches : JsonRejects(f)
    \/ \E f \in 1..MaxFetches : JsonResolves(f)

Spec == Init /\ [][Next]_vars

(***************************************************************************)
(* Expression engine: the date filter and formatDate (expressions.ts).     *)
(* A JavaScript value handed to the filter is a record [type, value]; a    *)
(* string is a sequence of one-character strings.  A Date is the record of *)
(* its local-time fields, as the getters of formatDate return them.        *)
(***************************************************************************)
Str(chars) == [type |-> "string", value |-> chars]
Num(n) == [type |-> "number", value |-> n]
JsUndefined == [type |-> "undefined"]
JsNull == [type |-> "null"]

\* a === b on these values
StrictEquals(a, b) ==
    /\ a.type = b.type
    /\ a.type \in {"string", "number"} => a.value = b.value

\* ToBoolean(v)
Truthy(v) ==
    CASE v.type = "string" -> v.value # <<>>
      [] v.type = "number" -> v.value # 0
      [] OTHER -> FALSE

DigitChars == <<"0", "1", "2", "3", "4", "5", "6", "7", "8", "9">>

\* n.toString() for a natural number
RECURSIVE NumberToString(_)
NumberToString(n) ==
    IF n < 10 THEN <<DigitChars[n + 1]>>
    ELSE NumberToString(n \div 10) \o <<DigitChars[(n % 10) + 1]>>

\* s.padStart(targetLength, '0')
RECURSIVE PadStart(_, _)
PadStart(s, targetLength) ==
    IF Len(s) >= targetLength THEN s ELSE PadStart(<<"0">> \o s, targetLength)

\* pad of formatDate
pad(n) == PadStart(NumberToString(n), 2)

\* whether pat occurs in s at position i
MatchesAt(s, pat, i) ==
    /\ i + Len(pat) - 1 <= Len(s)
    /\ \A j \in 1..Len(pat) : s[i + j - 1] = pat[j]

\* s.replace(pat, rep) with a string pattern: the first occurrence only
Replace(s, pat, rep) ==
    IF \E i \in 1..Len(s) : MatchesAt(s, pat, i)
    THEN LET i == CHOOSE i \in 1..Len(s) :
                     /\ MatchesAt(s, pat, i)
                     /\ \A k \in 1..(i - 1) : ~MatchesAt(s, pat, k)
         IN SubSeq(s, 1, i - 1) \o rep \o SubSeq(s, i + Len(pat), Len(s))
    ELSE s

\* hours % 12 || 12
Hours12(hours) == IF hours % 12 # 0 THEN hours % 12 ELSE 12

AmPm(hours) == IF hours >= 12 THEN <<"P", "M">> ELSE <<"A", "M">>

DefaultFormat ==
    <<"M", "M", "/", "D", "D", "/", "Y", "Y", "Y", "Y", " ",
      "h", "h", ":", "m", "m", ":", "s", "s", " ", "A">>

formatDate(date, format) ==
    LET r1 == Replace(format, <<"Y", "Y", "Y", "Y">>, NumberToString(date.year))
        r2 == Replace(r1, <<"M", "M">>, pad(date.month + 1))
        r3 == Replace(r2, <<"D", "D">>, pad(date.date))
        r4 == Replace(r3, <<"h", "h">>, pad(Hours12(date.hours)))
        r5 == Replace(r4, <<"H", "H">>, pad(date.hours))
        r6 == Replace(r5, <<"m", "m">>, pad(date.minutes))
        r7 == Replace(r6, <<"s", "s">>, pad(date.seconds))
    IN Replace(r7, <<"A">>, AmPm(date.hours))

\* the dates of the model: month is zero-based as getMonth returns it
Dates ==
    [year : {99, 2024}, month : {0, 11}, date : {5, 31},
     hours : {0, 9, 12, 15}, minutes : {0, 7}, seconds : {0, 59}]

\* the date-time text without offset that new Date reads back as d in local time
IsoText(d) ==
    PadStart(NumberToString(d.year), 4) \o <<"-">> \o pad(d.month + 1) \o <<"-">>
    \o pad(d.date) \o <<"T">> \o pad(d.hours) \o <<":">> \o pad(d.minutes)
    \o <<":">> \o pad(d.seconds)

InvalidDate == [invalid |-> TRUE]

\* new Date(text): a date of the model, or the invalid date (getTime() is NaN)
NewDate(text) ==
    IF \E d \in Dates : IsoText(d) = text
    THEN CHOOSE d \in Dates : IsoText(d) = text
    ELSE InvalidDate

\* strings no engine reads as a date
UnparseableStrings == {<<"n", "/", "a">>, <<"A", "M">>}

\* the inputs of the filter: cell values of every kind
DateInputs ==
    {JsUndefined, JsNull, Num(0), Num(5), Str(<<>>)}
    \cup {Str(s) : s \in UnparseableStrings}
    \cup {Str(IsoText(d)) : d \in Dates}

\* the opts argument: absent, empty, or a pattern
DateOpts ==
    {JsUndefined, Str(<<>>), Str(<<"H", "H", ":", "m", "m">>),
     Str(<<"D", "D", ".", "M", "M", ".", "Y", "Y", "Y", "Y">>),
     Str(<<"h", "h", " ", "A">>)}

\* expressions.filters['date']
date(input, opts) ==
    IF Truthy(input) /\ input.type = "string" /\ input.value # <<>>
    THEN LET parsed == NewDate(input.value)
         IN IF parsed # InvalidDate
            THEN LET format == IF Truthy(opts) THEN opts.value ELSE DefaultFormat
                 IN Str(formatDate(parsed, format))
            ELSE input
    ELSE IF Truthy(input) THEN input ELSE Str(<<>>)

\* one call of the filter (a pure function: one call per behaviour)
CallDate(input, opts) ==
    /\ dateCall = NoDateCall
    /\ dateCall' = [input |-> input, opts |-> opts, result |-> date(input, opts)]
    /\ UNCHANGED <<translatorVars, hydratorVars, rowsVars, componentVars>>

InitDate ==
    /\ dateCall = NoDateCall
    /\ TranslatorIdle
    /\ HydratorIdle
    /\ RowsIdle
    /\ ComponentIdle

NextDate == \E input \in DateInputs, opts \in DateOpts : CallDate(input, opts)

SpecDate == InitDate /\ [][NextDate]_vars

(***************************************************************************)
(* Properties.                                                             *)
(***************************************************************************)

\* C1: hydration never mutates its input: after any number of calls on the same
\* serialized array, with any callbacks, every input column equals what it was
\* before the first call, and a live column a call returned is as it was when
\* that call returned.
C1_HydrationLeavesInputUnchanged ==
    /\ columns = original
    /\ \A h \in 1..Len(hydrations) : \A i \in 1..Len(hydrations[h].live) :
          Deref(hydrations[h].live[i], columns) = hydrations[h].produced[i]

\* C2: every getRows call yields exactly one outcome: success and fail are
\* never both invoked, neither is invoked twice, and a finished call has
\* invoked exactly one of them.
C2_ExactlyOneOutcome ==
    \A p \in 1..Len(pulls) :
        /\ pulls[p].successCalls + pulls[p].failCalls <= 1
        /\ pulls[p].pc = "done" => pulls[p].successCalls + pulls[p].failCalls = 1

\* a data-page fetch that failed: rejected, answered with a non-success status,
\* or answered with a body that does not parse
PageFetchFailed(p) ==
    \/ pulls[p].transport = "rejected"
    \/ pulls[p].transport = "responded" /\ (~pulls[p].ok \/ pulls[p].body = "notJson")

\* C3: a failed data-page fetch never invokes success, and ends in fail.
C3_FailedFetchNeverSucceeds ==
    \A p \in 1..Len(pulls) :
        PageFetchFailed(p) =>
            /\ pulls[p].successCalls = 0
            /\ pulls[p].pc = "done" => pulls[p].failCalls = 1

\* the fetchTableDefinition call for the component's current url
Latest == fetches[Len(fetches)]

\* C4: when the definition fetch for the current url has failed, error is a
\* non-null message, loading is false and render shows 'Error: <message>'.
C4_FailedDefinitionFetchShowsError ==
    (fetches # <<>> /\ Latest.outcome = "failed") =>
        /\ state.error # "null"
        /\ state.loading = FALSE
        /\ Render(state) = "Error: " \o state.error

\* C4 witness: the fetch for the current url failed after the url had changed,
\* and an earlier fetch has settled as well
C4_Witness ==
    /\ Len(fetches) > 1
    /\ Latest.outcome = "failed"
    /\ fetches[1].outcome = "succeeded"
    /\ Render(state) = "Error: Failed to fetch table definition: Not Found"

\* C5: while the definition fetch for the current url has not settled (from
\* construction on, and after every change of url) the component is loading
\* and render shows 'Loading...'.
C5_LoadingWhileFetchPending ==
    (fetches = <<>> \/ Latest.pc # "done") =>
        /\ state.loading = TRUE
        /\ Render(state) = "Loading..."

\* a valueFormatter call has been made
Rendered == Has(cell, "run")

\* every entry of the called formatter list compiles
AllCompile == \A i \in 1..Len(cell.vf) : Compiles(cell.vf[i])

\* some entry of the called formatter list throws when evaluated for the cell
SomeEntryThrows ==
    \E i \in 1..Len(cell.vf) : Exec(cell.vf[i], Scope(cell.params)).threw

\* C6: when evaluating a formatter for a cell throws, the valueFormatter does
\* not throw: it returns the raw cell value.
C6_EvaluationErrorFallsBackToRawValue ==
    (Rendered /\ AllCompile /\ SomeEntryThrows) =>
        /\ cell.run.status = "returned"
        /\ cell.run.result = cell.params.value

\* C7: for a formatter list longer than one, every entry is evaluated against
\* the scope built from the render parameters and the result of the last entry
\* is returned, also when an earlier entry throws.
C7_LastEntryResultOnly ==
    (Rendered /\ Len(cell.vf) > 1 /\ AllCompile
        /\ ~Exec(cell.vf[Len(cell.vf)], Scope(cell.params)).threw) =>
        /\ cell.run.status = "returned"
        /\ cell.run.result = Exec(cell.vf[Len(cell.vf)], Scope(cell.params)).value
        /\ cell.run.evaluated =
              [i \in 1..Len(cell.vf) |-> <<cell.vf[i], Scope(cell.params)>>]

\* parseSort has returned
Translated == Has(query, "limit")

SortAbsentOrEmpty == ~Has(request, "sortModel") \/ Len(request.sortModel) = 0

FilterAbsentOrEmpty == ~Has(request, "filterModel") \/ DOMAIN request.filterModel = {}

\* startRow / endRow of the request, 0 when absent
RowOrZero(key) == IF Has(request, key) THEN request[key] ELSE 0

\* C8: with no sort and no filter, offset = startRow, limit = endRow - startRow
\* (each taken as 0 when absent, so limit = 0 when both are), orderBy =
\* [["createdAt","desc"]] and filter = {}.
C8_DefaultTranslation ==
    (Translated /\ SortAbsentOrEmpty /\ FilterAbsentOrEmpty) =>
        /\ query.offset = RowOrZero("startRow")
        /\ query.limit = RowOrZero("endRow") - RowOrZero("startRow")
        /\ query.orderBy = << << <<"c", "r", "e", "a", "t", "e", "d", "A", "t">>, "desc" >> >>
        /\ DOMAIN query.filter = {}
        /\ (~Has(request, "startRow") /\ ~Has(request, "endRow")) => query.limit = 0

\* C8 witness: a translated request with an empty sort model, an empty filter
\* model, startRow = 1 and endRow = 2
C8_Witness ==
    /\ Translated
    /\ Has(request, "sortModel") /\ Len(request.sortModel) = 0
    /\ Has(request, "filterModel") /\ DOMAIN request.filterModel = {}
    /\ Has(request, "startRow") /\ request.startRow = 1
    /\ Has(request, "endRow") /\ request.endRow = 2
    /\ query.limit = 1

\* the filter value the mapping rule gives for one entry
MappedFilter(key, entry) ==
    IF key = "id" THEN entry.filter
    ELSE CASE entry.type = "contains" -> [op \in {"$iLike"} |-> "%" \o entry.filter \o "%"]
           [] entry.type = "notContains" ->
                 [op \in {"$notILike"} |-> "%" \o entry.filter \o "%"]
           [] OTHER -> entry.filter

\* C9: every filter entry is mapped by its type (contains -> $iLike on %value%,
\* notContains -> $notILike on %value%, anything else -> the bare value), the
\* field 'id' always to the bare value, and the output has exactly the input's
\* keys.
C9_FilterMapping ==
    (Translated /\ Has(request, "filterModel")) =>
        /\ DOMAIN query.filter = DOMAIN request.filterModel
        /\ \A key \in DOMAIN request.filterModel :
              query.filter[key] = MappedFilter(key, request.filterModel[key])

\* C9 witness: a translated request filtering both 'id' and 'name' by contains
C9_Witness ==
    /\ Translated
    /\ Has(request, "filterModel")
    /\ DOMAIN request.filterModel = {"id", "name"}
    /\ request.filterModel["id"].type = "contains"
    /\ request.filterModel["name"].type = "contains"
    /\ DOMAIN query.filter["name"] = {"$iLike"}

\* C10: a sort column id with a dot is split on its first dot into (relation
\* name, field name), the field name being all the text after that dot, and
\* gives one entry ({model: Capitalized relation, as: relation}, field name,
\* direction); an id without a dot gives the flat entry [colId, direction].
C10_DottedSortSplitsOnFirstDot ==
    (Translated /\ Has(request, "sortModel") /\ Len(request.sortModel) > 0) =>
        LET s == request.sortModel[1]
            i == IndexOf(s.colId, ".")
            relation == SubSeq(s.colId, 1, i - 1)
            fieldName == SubSeq(s.colId, i + 1, Len(s.colId))
        IN /\ Len(query.orderBy) = 1
           /\ IF i > 0
              THEN /\ Len(query.orderBy[1]) = 3
                   /\ query.orderBy[1][1] =
                         [model |-> CapitalizeFirst(relation), as |-> relation]
                   /\ query.orderBy[1][2] = fieldName
                   /\ query.orderBy[1][3] = s.sort
              ELSE query.orderBy[1] = <<s.colId, s.sort>>

\* the live column a hydration call returns for a serialized column hydrated
\* on its own with the same callback
HydratedAlone(c, cellRendererAction) ==
    LET solo == fromSerializedToColumnDef(<<c>>, cellRendererAction)
    IN Deref(solo.live[1], solo.input)

\* C11: a column whose renderer name is absent from the registry hydrates to a
\* live column with no renderer, a name found in the registry is resolved to
\* the registered component, and every column hydrates as it would without its
\* siblings.
C11_RendererResolvedAgainstRegistry ==
    \A h \in 1..Len(hydrations) : \A i \in 1..Len(hydrations[h].input) :
        LET c == hydrations[h].input[i]
            l == hydrations[h].produced[i]
        IN /\ Has(c, "cellRenderer") =>
                 IF c.cellRenderer \in DOMAIN Registry
                 THEN Has(l, "cellRenderer") /\ l.cellRenderer = Registry[c.cellRenderer]
                 ELSE ~Has(l, "cellRenderer")
           /\ l = HydratedAlone(c, hydrations[h].action)

\* C12: a call adds onAction to a column's renderer parameters exactly when the
\* column declares a renderer and renderer parameters and a callback was
\* supplied; every other key of the parameters keeps its value; in every other
\* case the live column's renderer parameters are those of the serialized
\* column handed to the call.
C12_OnActionMergedIntoRendererParams ==
    \A h \in 1..Len(hydrations) : \A i \in 1..Len(hydrations[h].input) :
        LET c == hydrations[h].input[i]
            l == hydrations[h].produced[i]
            cb == hydrations[h].action
        IN IF Has(c, "cellRenderer") /\ Has(c, "cellRendererParams")
              /\ c.cellRendererParams # [null |-> TRUE] /\ cb # "undefined"
           THEN /\ Has(l, "cellRendererParams")
                /\ DOMAIN l.cellRendererParams =
                      DOMAIN c.cellRendererParams \cup {"onAction"}
                /\ l.cellRendererParams["onAction"] = cb
                /\ \A k \in DOMAIN c.cellRendererParams \ {"onAction"} :
                      l.cellRendererParams[k] = c.cellRendererParams[k]
           ELSE /\ Has(l, "cellRendererParams") <=> Has(c, "cellRendererParams")
                /\ Has(c, "cellRendererParams") =>
                      l.cellRendererParams = c.cellRendererParams

\* C12 witness: a second call, with another callback, on a column that declares
\* a renderer and parameters: onAction is the second callback and label is kept
C12_Witness ==
    /\ Len(hydrations) = 2
    /\ hydrations[1].action = "onOptionClicked#1"
    /\ hydrations[2].action = "onOptionClicked#2"
    /\ Has(hydrations[2].input[1], "cellRenderer")
    /\ Has(hydrations[2].input[1], "cellRendererParams")
    /\ hydrations[2].input[1].cellRendererParams # [null |-> TRUE]
    /\ hydrations[2].produced[1].cellRendererParams =
          ("label" :> "More") @@ ("onAction" :> "onOptionClicked#2")

\* C13: every data-page request carries the static http.params merged into its
\* JSON-encoded filter, each static key with its static value whatever the
\* grid's filter model holds, together with limit, offset and the JSON-encoded
\* orderBy of the translator's result for that request.
C13_StaticParamsInEveryPageRequest ==
    \A p \in 1..Len(pulls) :
        LET sent == pulls[p].queryParams
            q == parseSort(pulls[p].request)
            static == StaticParams(source)
        IN /\ pulls[p].url = source.url
           /\ \A k \in DOMAIN static :
                 Has(sent.filter.json, k) /\ sent.filter.json[k] = static[k]
           /\ \A k \in DOMAIN q.filter \ DOMAIN static :
                 Has(sent.filter.json, k) /\ sent.filter.json[k] = q.filter[k]
           /\ DOMAIN sent.filter.json = DOMAIN q.filter \cup DOMAIN static
           /\ sent.limit = ToString(q.limit)
           /\ sent.offset = ToString(q.offset)
           /\ sent.orderBy = JSONStringify(q.orderBy)

\* a request whose filter model names the key of a static parameter was issued
\* by a data source that has static params, and the static value was sent
C13_Witness ==
    \E p \in 1..Len(pulls) :
        /\ Has(source, "params")
        /\ Has(pulls[p].request, "filterModel")
        /\ DOMAIN pulls[p].request.filterModel \cap DOMAIN source.params # {}
        /\ pulls[p].queryParams.filter.json["tenant"] = "t1"
        /\ pulls[p].queryParams.limit = "2"

\* the rendering of a date in MM/DD/YYYY hh:mm:ss A: two-digit month and day,
\* four-digit year, two-digit 12-hour clock hour from 01 to 12, minutes,
\* seconds, and the marker AM or PM
DefaultRendering(d) ==
    LET h12 == IF d.hours % 12 = 0 THEN 12 ELSE d.hours % 12
    IN pad(d.month + 1) \o <<"/">> \o pad(d.date) \o <<"/">>
       \o PadStart(NumberToString(d.year), 4) \o <<" ">> \o pad(h12) \o <<":">>
       \o pad(d.minutes) \o <<":">> \o pad(d.seconds) \o <<" ">>
       \o (IF d.hours < 12 THEN <<"A", "M">> ELSE <<"P", "M">>)

\* input is a string that parses as a date
ParsesAsDate(input) == input.type = "string" /\ NewDate(input.value) # InvalidDate

\* C14: the date filter returns its input unchanged for every input that is
\* empty or does not parse as a date, and for a parseable date string with no
\* explicit pattern it returns the rendering in MM/DD/YYYY hh:mm:ss A.
C14_DateFilter ==
    dateCall # NoDateCall =>
        /\ ~ParsesAsDate(dateCall.input) => StrictEquals(dateCall.result, dateCall.input)
        /\ ParsesAsDate(dateCall.input) /\ dateCall.opts = JsUndefined =>
              dateCall.result = Str(DefaultRendering(NewDate(dateCall.input.value)))

\* C15: each formatter source is compiled once per hydration call, at hydration
\* time: a call over a malformed source reports the compile failure instead of
\* returning columns, and rendering a cell afterwards compiles nothing and
\* raises no compile failure.
C15_CompiledOnceAtHydration ==
    /\ \A h \in 1..Len(hydrations) : \A i \in 1..Len(hydrations[h].input) :
          LET c == hydrations[h].input[i]
          IN HasFormatter(c) =>
                \A k \in 1..Len(c.valueFormatter) : Compiles(c.valueFormatter[k])
    /\ Rendered =>
          /\ cell.run.compiled = <<>>
          /\ ~(cell.run.status = "threw" /\ ~AllCompile)

\* every fetchTableDefinition call has run to its end
AllSettled == fetches # <<>> /\ \A f \in 1..Len(fetches) : fetches[f].pc = "done"

\* C16: once every in-flight definition fetch has settled, in any completion
\* order, the state reflects the fetch for the latest url only: its column
\* definitions, data source and defaultSort with error = null if it succeeded,
\* its error if it failed.
C16_LatestUrlWins ==
    AllSettled =>
        IF Latest.outcome = "succeeded"
        THEN LET loaded == LoadedState(InitialState, Definition(Latest.url),
                                       OnOptionClicked)
             IN /\ state.columnDefs = loaded.columnDefs
                /\ state.dataSource = loaded.dataSource
                /\ state.defaultSort = loaded.defaultSort
                /\ state.error = Null
        ELSE state.error = Latest.message

====
